---------------------------- MODULE Spec2Model ----------------------------
(***************************************************************************)
(* Particle Cosmos (src/muay.py): the frame loop, its input handlers, the  *)
(* force fields and the per-step particle update.                          *)
(*                                                                         *)
(* Numbers.  A Python float is modelled as a fixed-point integer with FP   *)
(* units per 1.0 (positions, velocities, sizes, strengths, masses).  A     *)
(* value is rounded to the nearest unit where the code stores it into an   *)
(* attribute; the short-lived locals of Particle.update (dx/distance,      *)
(* force) carry GUARD more digits.  math.sqrt is rounded to the nearest    *)
(* unit, math.sin / math.cos are Bhaskara's rational approximation.        *)
(*                                                                         *)
(* Exceptions.  An uncaught Python exception ends the program: err names   *)
(* it and no action is enabled afterwards.                                 *)
(*                                                                         *)
(* Rendering (draw methods, colour, trail, glow, sacred geometry, HUD) is  *)
(* not modelled: it never writes the state below.                          *)
(***************************************************************************)
EXTENDS Integers, Sequences, FiniteSets, TLC

VARIABLES
    particles,                 \* list of Particle records (module global)
    force_fields,              \* list of ForceField records (module global)
    global_force_strength,     \* fixed point
    particle_size_multiplier,  \* fixed point
    turbulence_active,         \* BOOLEAN
    current_particle_type,     \* key of PARTICLE_TYPES
    mouse_pressed,             \* [left, right, middle -> BOOLEAN]
    mouse_pos,                 \* <<x, y>> in pixels
    key_timers,                \* the keys of the key_timers dict
    ctrl_held,                 \* read once per frame from key.get_pressed()
    running,                   \* the while-loop flag
    pc,                        \* position in the loop body
    nev,                       \* events handled so far
    err,                       \* "none" or the uncaught exception
    op,                        \* what the last handler did (history):
                               \* "refused" when it dropped a field request,
                               \* "explode" when it called create_explosion_at
    passed                     \* the fields handed to the last particle pass
                               \* (history)

vars == <<particles, force_fields, global_force_strength,
          particle_size_multiplier, turbulence_active, current_particle_type,
          mouse_pressed, mouse_pos, key_timers, ctrl_held, running, pc, nev,
          err, op, passed>>

---------------------------------------------------------------------------
(* Bounds of the model.  The first group scales limits of the program down *)
(* so that they are reached; the formulas below are stated in terms of the *)
(* names, not of the values.                                               *)

\* source: MAX_PARTICLES = 400
MAX_PARTICLES == 2
\* source: MAX_FORCE_FIELDS = 60
MAX_FORCE_FIELDS == 2
\* source: range(120), the initial population
InitialParticles == 1
\* source: ForceField duration=120 (the default, used by the click fields)
ClickDuration == 3
\* source: duration 10 of the three drag-hold fields
HoldDuration == 2
\* source: random.randint(400, 1200), Particle.max_age
MinMaxAge == 1
\* the event queue delivers this many events in all
MaxEvents == 1
\* SpecUpdate follows one particle for this many updates
UpdateSteps == 2

---------------------------------------------------------------------------
(* Program constants.                                                      *)

WIDTH == 1000
HEIGHT == 700
ShardCount == 15
ShardEnergy == 50
ShardMinAge == 40
ShardMaxAge == 80
SpeedLimit == 15
BestDist == 60

FP == 100
GUARD == 1000

PARTICLE_TYPES ==
    [ NORMAL |-> [mass |-> 100, drag |-> 98],
      HEAVY  |-> [mass |-> 200, drag |-> 99],
      LIGHT  |-> [mass |-> 50,  drag |-> 96],
      ENERGY |-> [mass |-> 30,  drag |-> 94] ]

\* Particle.__slots__: the only attributes an instance can hold
ParticleSlots ==
    {"x", "y", "vx", "vy", "type_data", "mass", "size", "target_size",
     "color", "trail", "max_trail", "energy", "max_energy", "age",
     "max_age", "glow", "merge_cooldown", "charged", "charge", "base_size"}

\* the functions the module defines (def statements at module level)
ModuleFunctions ==
    {"hsv_to_rgb", "create_explosion_at", "draw_hud", "draw_grid"}

---------------------------------------------------------------------------
(* Arithmetic.                                                             *)

Abs(n) == IF n < 0 THEN -n ELSE n

Min(a, b) == IF a < b THEN a ELSE b

Max(a, b) == IF a > b THEN a ELSE b

\* n / d rounded to the nearest integer (d > 0), halves away from zero
RDiv(n, d) ==
    IF n >= 0 THEN (n + d \div 2) \div d
    ELSE -(((-n) + d \div 2) \div d)

\* product of two fixed-point numbers
Mul(a, b) == RDiv(a * b, FP)

RECURSIVE SqrtSearch(_, _, _)
SqrtSearch(n, lo, hi) ==
    IF lo >= hi THEN lo
    ELSE LET mid == (lo + hi + 1) \div 2
         IN  IF mid * mid <= n THEN SqrtSearch(n, mid, hi)
             ELSE SqrtSearch(n, lo, mid - 1)

\* math.sqrt of n (n in squared units), to the nearest unit
Sqrt(n) ==
    LET r == SqrtSearch(n, 0, 46000)
    IN  IF n - r * r > r THEN r + 1 ELSE r

\* math.sin of a (milliradians, a >= 0) times k, Bhaskara's approximation;
\* 3142 and 6283 are pi and 2 pi in milliradians
SinTimes(a, k) ==
    LET m == a % 6283
        h == IF m <= 3142 THEN m ELSE m - 3142
        t == h * (3142 - h)
        v == RDiv(16 * t * k, 5 * 3142 * 3142 - 4 * t)
    IN  IF m <= 3142 THEN v ELSE -v

\* math.cos(a) = sin(a + pi/2)
CosTimes(a, k) == SinTimes(a + 1571, k)

---------------------------------------------------------------------------
(* ForceField.                                                             *)

\* ForceField.__init__; x, y, radius in pixels, strength fixed point.
\* acted counts the particle passes the field was handed to (history only).
ForceField(x, y, strength, radius, field_type, duration) ==
    [ x |-> x * FP, y |-> y * FP, strength |-> strength,
      radius_sq |-> (radius * FP) * (radius * FP),
      field_type |-> field_type, age |-> 0, max_age |-> duration,
      active_radius_sq |-> ((radius + 20) * FP) * ((radius + 20) * FP),
      acted |-> 0 ]

\* ForceField.update: the field after the call
FieldAged(f) == [f EXCEPT !.age = f.age + 1]


\* FieldAlive with <= instead of <
FieldAliveOffByOne(f) == f.age <= f.max_age

\* ForceField.update: the value returned, of the field after the call
FieldAlive(f) == f.age < f.max_age

\* ForceField.is_near; no radius reaches 200 pixels, so a larger offset on
\* one axis decides the comparison without squaring it
is_near(f, x, y) ==
    LET dx == x - f.x
        dy == y - f.y
    IN  IF Abs(dx) > 200 * FP \/ Abs(dy) > 200 * FP THEN FALSE
        ELSE dx * dx + dy * dy < f.active_radius_sq

---------------------------------------------------------------------------
(* Particle.                                                               *)

\* Particle.__init__; x, y in pixels; d holds the random draws
Particle(x, y, particle_type, psm, d) ==
    [ x |-> x * FP, y |-> y * FP, vx |-> d.vx, vy |-> d.vy,
      kind |-> particle_type,
      mass |-> PARTICLE_TYPES[particle_type].mass,
      base_size |-> Mul(d.size, psm),
      size |-> Mul(d.size, psm),
      target_size |-> Mul(d.size, psm),
      energy |-> 100, max_energy |-> 100,
      age |-> 0, max_age |-> d.max_age,
      charge |-> d.charge ]

\* update: self.age += 1
AgeStep(p) == [p EXCEPT !.age = p.age + 1]

\* update: turbulence; turbulence_scale 0.005 is 5 milliradians per pixel,
\* age * 0.02 is 20 milliradians per step, turbulence_strength 0.3 is 30
TurbulenceStep(p, on) ==
    IF on
    THEN [p EXCEPT
            !.vx = p.vx + SinTimes(RDiv(p.x * 5, FP) + 20 * p.age, 30),
            !.vy = p.vy + CosTimes(RDiv(p.y * 5, FP) + 20 * p.age, 30)]
    ELSE p

\* update: the scalar force of one field at the given distance, in
\* 1 / (FP * GUARD)
FieldForce(p, f, distance) ==
    IF f.field_type = "gravity"
    THEN RDiv(Mul(f.strength, p.mass) * FP * GUARD, distance)
    ELSE IF f.field_type = "repulsion"
    THEN -RDiv(Mul(f.strength, p.mass) * FP * GUARD, distance)
    ELSE RDiv(f.strength * p.charge * FP * GUARD, distance)

\* update: the body of "for field in force_fields" for one field
ApplyField(p, f, x, y) ==
    IF ~is_near(f, x, y) THEN p
    ELSE
      LET dx == f.x - x
          dy == f.y - y
          raw == dx * dx + dy * dy
          dist_sq == IF raw < FP * FP THEN FP * FP ELSE raw
          distance == Sqrt(dist_sq)
      IN  IF distance >= Sqrt(f.radius_sq) THEN p
          ELSE
            LET force == FieldForce(p, f, distance)
                \* (dx / distance) * force * 0.8
                ax == RDiv(RDiv(dx * GUARD, distance) * force,
                           (5 * GUARD * GUARD) \div 4)
                ay == RDiv(RDiv(dy * GUARD, distance) * force,
                           (5 * GUARD * GUARD) \div 4)
            IN  [p EXCEPT !.vx = p.vx + ax, !.vy = p.vy + ay]

RECURSIVE ApplyFields(_, _, _)
\* update: the loop over force_fields, from field i on
ApplyFields(p, fields, i) ==
    IF i > Len(fields) THEN p
    ELSE ApplyFields(ApplyField(p, fields[i], p.x, p.y), fields, i + 1)

\* update: the drag coefficient used
DragOf(p) == PARTICLE_TYPES[p.kind].drag

\* update: drag
DragStep(p) ==
    [p EXCEPT !.vx = Mul(p.vx, DragOf(p)), !.vy = Mul(p.vy, DragOf(p))]


\* update without the speed limit: the velocity is left as dragged
SpeedLimitLoose(p) == p

\* update: speed limit
SpeedLimitStep(p) ==
    LET speed_sq == p.vx * p.vx + p.vy * p.vy
    IN  IF speed_sq > SpeedLimit * SpeedLimit * FP * FP
        THEN [p EXCEPT
                !.vx = RDiv(p.vx * SpeedLimit * FP, Sqrt(speed_sq)),
                !.vy = RDiv(p.vy * SpeedLimit * FP, Sqrt(speed_sq))]
        ELSE p

\* update: move
MoveStep(p) == [p EXCEPT !.x = p.x + p.vx * 2, !.y = p.y + p.vy * 2]


\* Reflect without the loss of speed
ReflectElastic(v) == -v

\* update: the restitution of a bounce, v * -0.6
Reflect(v) == RDiv(-6 * v, 10)

\* update: bounds
BoundsStep(p) ==
    LET outx == p.x < 0 \/ p.x > WIDTH * FP
        outy == p.y < 0 \/ p.y > HEIGHT * FP
    IN  [p EXCEPT
           !.vx = IF outx THEN Reflect(p.vx) ELSE p.vx,
           !.x  = IF outx THEN Max(0, Min(WIDTH * FP, p.x)) ELSE p.x,
           !.vy = IF outy THEN Reflect(p.vy) ELSE p.vy,
           !.y  = IF outy THEN Max(0, Min(HEIGHT * FP, p.y)) ELSE p.y]

\* update: size interpolation, then the target size by energy band
SizeStep(p) ==
    LET size == p.size + RDiv(p.target_size - p.size, 10)
    IN  [p EXCEPT
           !.size = size,
           !.target_size =
               IF p.energy < 20 THEN Max(FP, RDiv(p.base_size * 7, 10))
               ELSE IF p.energy > 80
               THEN Min(p.base_size * 2, RDiv(size * 101, 100))
               ELSE p.base_size]

\* Particle.update: the particle after the call
Updated(p, fields, turbulence) ==
    SizeStep(BoundsStep(MoveStep(SpeedLimitStep(DragStep(
        ApplyFields(TurbulenceStep(AgeStep(p), turbulence), fields, 1))))))


\* Dead with >= instead of >
DeadOffByOne(p) == p.age >= p.max_age \/ p.energy <= 0

\* Particle.update: the value returned, of the particle after the call
Dead(p) == p.age > p.max_age \/ p.energy <= 0

---------------------------------------------------------------------------
(* Lists.                                                                  *)

\* a list comprehension [g(e) for e in s]
RECURSIVE MapSeq(_, _)
MapSeq(G(_), s) ==
    IF s = << >> THEN << >> ELSE <<G(Head(s))>> \o MapSeq(G, Tail(s))

\* a list comprehension [e for e in s if T(e)]
RECURSIVE FilterSeq(_, _)
FilterSeq(T(_), s) ==
    IF s = << >> THEN << >>
    ELSE (IF T(Head(s)) THEN <<Head(s)>> ELSE << >>) \o FilterSeq(T, Tail(s))

\* s + [e] * n
RECURSIVE Repeat(_, _)
Repeat(e, n) == IF n <= 0 THEN << >> ELSE <<e>> \o Repeat(e, n - 1)

---------------------------------------------------------------------------
(* The inputs: what the random module and the user can supply.             *)

\* random.uniform(-1.0, 1.0), twice
VelDraws == {<<100, -50>>}
\* random.uniform(2.0, 5.0)
SizeDraws == {300}
\* random.randint(400, 1200), scaled
AgeDraws == {MinMaxAge, MinMaxAge + 1}
\* random.choice([-1, 1])
ChargeDraws == {1}

Draws ==
    { [vx |-> v[1], vy |-> v[2], size |-> z, max_age |-> a, charge |-> c] :
        v \in VelDraws, z \in SizeDraws, a \in AgeDraws, c \in ChargeDraws }

\* random.randint(0, WIDTH), random.randint(0, HEIGHT)
InitPos == {<<500, 350>>}
\* random.randint(50, WIDTH-50), random.randint(50, HEIGHT-50)
SpawnPos == {<<500, 350>>}
\* event.pos
ClickPos == {<<503, 354>>}

\* angle, speed, size, max_age of a shard: random.uniform(0, 2 pi),
\* random.uniform(2.0, 6.0), random.uniform(1.0, 2.0), random.randint(40, 80)
ShardDraws ==
    { [vx |-> 400, vy |-> 0, size |-> 150, max_age |-> a] :
        a \in {ShardMinAge, ShardMaxAge} }

---------------------------------------------------------------------------
(* Names and attributes.                                                   *)

\* calling a module-level name: NameError unless a def bound it
CallError(name) == IF name \in ModuleFunctions THEN "none" ELSE "NameError"

\* the attributes create_explosion_at assigns on a new Particle, in order
ShardAttrs ==
    <<"vx", "vy", "size", "target_size", "color", "max_age", "energy",
      "drag">>

\* assigning them: AttributeError at the first that is no slot
ShardError ==
    IF \A i \in 1 .. Len(ShardAttrs) : ShardAttrs[i] \in ParticleSlots
    THEN "none" ELSE "AttributeError"

\* one shard as create_explosion_at leaves it (x, y in units)
Shard(x, y, psm, d) ==
    [ Particle(0, 0, "LIGHT", psm,
               [vx |-> 0, vy |-> 0, size |-> 200, max_age |-> 0,
                charge |-> 1])
      EXCEPT !.x = x, !.y = y, !.vx = d.vx, !.vy = d.vy, !.size = d.size,
             !.target_size = d.size, !.max_age = d.max_age,
             !.energy = ShardEnergy ]

\* create_explosion_at: the particle list and the exception it ends with
create_explosion_at(parts, x, y, count, psm, d) ==
    IF count > 0 /\ ShardError # "none"
    THEN [particles |-> parts, err |-> ShardError]
    ELSE [particles |-> parts \o Repeat(Shard(x, y, psm, d), count),
          err |-> "none"]

RECURSIVE ClosestFrom(_, _, _, _, _, _)
\* the ctrl-click search: index of closest (0 for None); best_sq is
\* best_dist * best_dist
ClosestFrom(parts, i, mx, my, best_sq, closest) ==
    IF i > Len(parts) THEN closest
    ELSE
      LET dx == parts[i].x - mx * FP
          dy == parts[i].y - my * FP
          reach == parts[i].size + 10 * FP
          hit == /\ Abs(dx) < BestDist * FP
                 /\ Abs(dy) < BestDist * FP
                 /\ dx * dx + dy * dy < best_sq
                 /\ dx * dx + dy * dy < reach * reach
      IN  IF hit
          THEN ClosestFrom(parts, i + 1, mx, my, dx * dx + dy * dy, i)
          ELSE ClosestFrom(parts, i + 1, mx, my, best_sq, closest)

Closest(parts, mx, my) ==
    ClosestFrom(parts, 1, mx, my, (BestDist * FP) * (BestDist * FP), 0)

\* particles.remove(closest)
RemoveAt(parts, i) ==
    SubSeq(parts, 1, i - 1) \o SubSeq(parts, i + 1, Len(parts))

---------------------------------------------------------------------------
(* The program.                                                            *)

Live == err = "none"

\* loop top: key.get_pressed(), then the UP/DOWN repeat.  A key that is
\* held and has no timer yet gets one and calls adjust_force_strength.
\* The key_timers and the exception after it.
KeysRead(timers, up, down) ==
    IF up \/ down
    THEN [key_timers |-> timers \cup {IF up THEN "UP" ELSE "DOWN"},
          err |-> CallError("adjust_force_strength")]
    ELSE [key_timers |-> timers \ {"UP", "DOWN"}, err |-> "none"]

\* the module body, up to the while loop
Init ==
    /\ \E d \in Draws, xy \in InitPos :
          particles = Repeat(Particle(xy[1], xy[2], "NORMAL", FP, d),
                             InitialParticles)
    /\ force_fields = << >>
    /\ global_force_strength = FP
    /\ particle_size_multiplier = FP
    /\ turbulence_active = FALSE
    /\ current_particle_type = "NORMAL"
    /\ mouse_pressed = [left |-> FALSE, right |-> FALSE, middle |-> FALSE]
    /\ mouse_pos = <<0, 0>>
    /\ key_timers = {}
    /\ ctrl_held = FALSE
    /\ running = TRUE
    /\ pc = "top"
    /\ nev = 0
    /\ err = "none"
    /\ op = "start"
    /\ passed = << >>

\* the first iteration, up to its event loop: the key read
Enter ==
    /\ Live /\ pc = "top"
    /\ pc' = "events"
    /\ ctrl_held' \in BOOLEAN
    /\ \E up \in BOOLEAN, down \in BOOLEAN :
          /\ key_timers' = KeysRead(key_timers, up, down).key_timers
          /\ err' = KeysRead(key_timers, up, down).err
    /\ op' = "keys"
    /\ UNCHANGED <<particles, force_fields, global_force_strength,
                   particle_size_multiplier, turbulence_active,
                   current_particle_type, mouse_pressed, mouse_pos, running,
                   nev, passed>>

\* what every event handler shares
Event ==
    /\ Live /\ pc = "events" /\ nev < MaxEvents
    /\ nev' = nev + 1
    /\ UNCHANGED <<pc, ctrl_held, key_timers, passed>>

\* QUIT, or KEYDOWN ESCAPE / q
Quit ==
    /\ Event
    /\ running' = FALSE
    /\ op' = "event"
    /\ UNCHANGED <<particles, force_fields, global_force_strength,
                   particle_size_multiplier, turbulence_active,
                   current_particle_type, mouse_pressed, mouse_pos, err>>

\* KEYDOWN c
KeyClear ==
    /\ Event
    /\ particles' = << >>
    /\ force_fields' = << >>
    /\ op' = "event"
    /\ UNCHANGED <<global_force_strength, particle_size_multiplier,
                   turbulence_active, current_particle_type, mouse_pressed,
                   mouse_pos, running, err>>

\* KEYDOWN r
KeyReset ==
    /\ Event
    /\ global_force_strength' = FP
    /\ particle_size_multiplier' = FP
    /\ turbulence_active' = FALSE
    /\ op' = "event"
    /\ UNCHANGED <<particles, force_fields, current_particle_type,
                   mouse_pressed, mouse_pos, running, err>>

\* KEYDOWN SPACE
KeySpace ==
    /\ Event
    /\ err' = CallError("spawn_particle_burst")
    /\ op' = "event"
    /\ UNCHANGED <<particles, force_fields, global_force_strength,
                   particle_size_multiplier, turbulence_active,
                   current_particle_type, mouse_pressed, mouse_pos, running>>

\* KEYDOWN TAB
KeyTab ==
    /\ Event
    /\ turbulence_active' = ~turbulence_active
    /\ op' = "event"
    /\ UNCHANGED <<particles, force_fields, global_force_strength,
                   particle_size_multiplier, current_particle_type,
                   mouse_pressed, mouse_pos, running, err>>

\* KEYDOWN 1, 2, 3, 4
KeyKind ==
    /\ Event
    /\ \E i \in 1 .. 4 :
         current_particle_type' = <<"NORMAL", "HEAVY", "LIGHT", "ENERGY">>[i]
    /\ op' = "event"
    /\ UNCHANGED <<particles, force_fields, global_force_strength,
                   particle_size_multiplier, turbulence_active,
                   mouse_pressed, mouse_pos, running, err>>

\* KEYDOWN [ and ]: 0.1 down to 0.2, 0.1 up to 3.0
KeyBracket ==
    /\ Event
    /\ \/ particle_size_multiplier' =
             Max(RDiv(2 * FP, 10), particle_size_multiplier - RDiv(FP, 10))
       \/ particle_size_multiplier' =
             Min(3 * FP, particle_size_multiplier + RDiv(FP, 10))
    /\ op' = "event"
    /\ UNCHANGED <<particles, force_fields, global_force_strength,
                   turbulence_active, current_particle_type, mouse_pressed,
                   mouse_pos, running, err>>


\* AddField with the cap tested by <= instead of <
AddFieldOffByOne(fields, f) ==
    IF Len(fields) <= MAX_FORCE_FIELDS THEN Append(fields, f) ELSE fields

\* the guarded append every field-creating input performs
AddField(fields, f) ==
    IF Len(fields) < MAX_FORCE_FIELDS THEN Append(fields, f) ELSE fields

\* MOUSEBUTTONDOWN button 1 with ctrl held: explode the nearest particle
MouseCtrlClick ==
    /\ Event /\ ctrl_held
    /\ \E pos \in ClickPos, d \in ShardDraws :
         LET closest == Closest(particles, pos[1], pos[2])
             boom == create_explosion_at(particles, particles[closest].x,
                         particles[closest].y, ShardCount,
                         particle_size_multiplier, d)
         IN  /\ mouse_pos' = pos
             /\ IF closest = 0
                THEN /\ particles' = particles
                     /\ err' = err
                     /\ op' = "event"
                ELSE /\ particles' =
                          IF boom.err = "none"
                          THEN RemoveAt(boom.particles, closest)
                          ELSE boom.particles
                     /\ err' = boom.err
                     /\ op' = "explode"
    /\ UNCHANGED <<force_fields, global_force_strength,
                   particle_size_multiplier, turbulence_active,
                   current_particle_type, mouse_pressed, running>>

\* MOUSEBUTTONDOWN button 1 (no ctrl), 3, 2: press, and a click field
MouseDown ==
    /\ Event
    /\ \E pos \in ClickPos, button \in {1, 2, 3} :
         /\ button = 1 => ~ctrl_held
         /\ mouse_pos' = pos
         /\ mouse_pressed' =
               [mouse_pressed EXCEPT
                  ![CASE button = 1 -> "left" [] button = 3 -> "right"
                      [] OTHER -> "middle"] = TRUE]
         /\ force_fields' =
               AddField(force_fields,
                  CASE button = 1 ->
                         ForceField(pos[1], pos[2],
                             Mul(2 * FP, global_force_strength), 120,
                             "gravity", ClickDuration)
                    [] button = 3 ->
                         ForceField(pos[1], pos[2],
                             Mul(3 * FP, global_force_strength), 100,
                             "repulsion", ClickDuration)
                    [] OTHER ->
                         ForceField(pos[1], pos[2],
                             Mul(4 * FP, global_force_strength), 90,
                             "magnetic", ClickDuration))
    /\ op' = IF Len(force_fields) < MAX_FORCE_FIELDS THEN "event"
             ELSE "refused"
    /\ UNCHANGED <<particles, global_force_strength,
                   particle_size_multiplier, turbulence_active,
                   current_particle_type, running, err>>

\* MOUSEBUTTONUP: button 1 left, 3 right, any other middle
MouseUp ==
    /\ Event
    /\ \E b \in {"left", "right", "middle"} :
         mouse_pressed' = [mouse_pressed EXCEPT ![b] = FALSE]
    /\ op' = "event"
    /\ UNCHANGED <<particles, force_fields, global_force_strength,
                   particle_size_multiplier, turbulence_active,
                   current_particle_type, mouse_pos, running, err>>

\* MOUSEMOTION
MouseMotion ==
    /\ Event
    /\ \E pos \in ClickPos : mouse_pos' = pos
    /\ op' = "event"
    /\ UNCHANGED <<particles, force_fields, global_force_strength,
                   particle_size_multiplier, turbulence_active,
                   current_particle_type, mouse_pressed, running, err>>

---------------------------------------------------------------------------
(* The rest of the loop body, after the event loop.                        *)

\* "Continuous fields": one guarded append per held button, in order
ContinuousFields(fields, pressed, pos, gfs) ==
    LET f1 == IF pressed.left
              THEN AddField(fields,
                      ForceField(pos[1], pos[2], Mul(RDiv(12 * FP, 10), gfs),
                                 80, "gravity", HoldDuration))
              ELSE fields
        f2 == IF pressed.right
              THEN AddField(f1,
                      ForceField(pos[1], pos[2], Mul(RDiv(18 * FP, 10), gfs),
                                 70, "repulsion", HoldDuration))
              ELSE f1
    IN  IF pressed.middle
        THEN AddField(f2,
                ForceField(pos[1], pos[2], Mul(RDiv(22 * FP, 10), gfs),
                           80, "magnetic", HoldDuration))
        ELSE f2


\* SpawnAllowed with the cap tested by <= instead of <
SpawnAllowedOffByOne(parts) == Len(parts) <= MAX_PARTICLES

\* "Spawn particles (limited)": the guard of the periodic spawn
SpawnAllowed(parts) == Len(parts) < MAX_PARTICLES

\* force_fields = [f for f in force_fields if f.update()]
PruneFields(fields) == FilterSeq(FieldAlive, MapSeq(FieldAged, fields))


\* PassFields when the particle pass runs before the field prune
PassFieldsUnpruned(before, pruned) == before

\* the list p.update receives: the name force_fields, rebound by the prune
PassFields(before, pruned) == pruned

\* the history of a field that was handed to a particle pass
Acted(f) == [f EXCEPT !.acted = f.acted + 1]

\* particles = [p for p in particles if not p.update(force_fields, ...)]
PruneParticles(parts, fields, turbulence) ==
    LET Upd(p) == Updated(p, fields, turbulence)
        Kept(p) == ~Dead(p)
    IN  FilterSeq(Kept, MapSeq(Upd, parts))

\* From the end of one event loop to the start of the next: continuous
\* fields, periodic spawn, field prune, particle pass; then, while running,
\* the next iteration's key read.
Tick ==
    /\ Live /\ pc = "events"
    /\ \E spawn \in BOOLEAN, d \in Draws, xy \in SpawnPos :
         LET fields == ContinuousFields(force_fields, mouse_pressed,
                                        mouse_pos, global_force_strength)
             parts == IF SpawnAllowed(particles) /\ spawn
                      THEN Append(particles,
                              Particle(xy[1], xy[2], current_particle_type,
                                       particle_size_multiplier, d))
                      ELSE particles
             pruned == PruneFields(fields)
             handed == PassFields(fields, pruned)
         IN  /\ passed' = handed
             /\ force_fields' =
                   IF handed = pruned THEN MapSeq(Acted, pruned) ELSE pruned
             /\ particles' = PruneParticles(parts, handed, turbulence_active)
             /\ op' = IF Len(fields) - Len(force_fields) =
                            Cardinality({b \in DOMAIN mouse_pressed :
                                            mouse_pressed[b]})
                      THEN "tick" ELSE "refused"
    /\ IF running
       THEN /\ pc' = "events"
            /\ ctrl_held' \in BOOLEAN
            /\ \E up \in BOOLEAN, down \in BOOLEAN :
                  /\ key_timers' = KeysRead(key_timers, up, down).key_timers
                  /\ err' = KeysRead(key_timers, up, down).err
       ELSE /\ pc' = "exit"
            /\ UNCHANGED <<ctrl_held, key_timers, err>>
    /\ UNCHANGED <<global_force_strength, particle_size_multiplier,
                   turbulence_active, current_particle_type, mouse_pressed,
                   mouse_pos, running, nev>>

Next ==
    \/ Enter
    \/ Quit
    \/ KeyClear
    \/ KeyReset
    \/ KeySpace
    \/ KeyTab
    \/ KeyKind
    \/ KeyBracket
    \/ MouseCtrlClick
    \/ MouseDown
    \/ MouseUp
    \/ MouseMotion
    \/ Tick

Spec == Init /\ [][Next]_vars

---------------------------------------------------------------------------
(* Properties of the loop.                                                 *)

\* a step of Tick
TickStep == pc = "events" /\ nev' = nev

\* a step of one of the event handlers
EventStep == nev' = nev + 1

\* the records explosion shards would be: LIGHT, energy 50, max-age 40..80
IsShard(p) ==
    /\ p.kind = "LIGHT"
    /\ p.energy = ShardEnergy
    /\ p.max_age \in ShardMinAge .. ShardMaxAge

ShardsIn(parts) == Cardinality({i \in 1 .. Len(parts) : IsShard(parts[i])})

\* a list element by element: same length, and R holds pairwise
Pairwise(R(_, _), s, t) ==
    /\ Len(s) = Len(t)
    /\ \A i \in 1 .. Len(s) : R(s[i], t[i])

\* C1: an explosion (count = 15) appends exactly 15 new LIGHT particles with
\* energy 50 and max-age in 40..80 and leaves the particles that were in the
\* set as they were.  Stated of the ctrl-click handler, which calls
\* create_explosion_at and then removes the exploded particle.
C1_ExplosionAppendsShards ==
    [][op' = "explode" =>
          /\ err' = "none"
          /\ ShardsIn(particles') = ShardsIn(particles) + ShardCount
          /\ Len(particles') = Len(particles) + ShardCount - 1]_vars

\* C2: the live particle count is at most MAX_PARTICLES except right after
\* an explosion, and never above MAX_PARTICLES + 15.
C2_ParticleCap ==
    /\ Len(particles) <= MAX_PARTICLES + ShardCount
    /\ op # "explode" => Len(particles) <= MAX_PARTICLES

\* C2 witness: a full set all of whose particles were there before the last
\* Tick, so that Tick found the set full and the spawn was gated
C2_Witness ==
    /\ op = "tick"
    /\ Len(particles) = MAX_PARTICLES
    /\ \A i \in 1 .. Len(particles) : particles[i].age >= 2

FieldKept(f) == f.age + 1 < f.max_age

\* g is f one update later
FieldNextAge(f, g) ==
    /\ g.age = f.age + 1
    /\ g.max_age = f.max_age
    /\ g.field_type = f.field_type
    /\ g.x = f.x /\ g.y = f.y

\* C4: a field with max age N is live with ages 0..N-1 and gone at N: every
\* live field has age < max age, and a Tick keeps exactly the fields whose
\* age + 1 is below their max age, each one update older, in order, followed
\* only by the drag-hold fields made in that Tick (age 1).
C4_FieldLifetime ==
    /\ [](\A i \in 1 .. Len(force_fields) :
            /\ force_fields[i].age >= 0
            /\ force_fields[i].age < force_fields[i].max_age)
    /\ [][TickStep =>
            LET kept == FilterSeq(FieldKept, force_fields)
                n == Len(kept)
            IN  /\ Len(force_fields') >= n
                /\ Pairwise(FieldNextAge, kept, SubSeq(force_fields', 1, n))
                /\ \A i \in (n + 1) .. Len(force_fields') :
                      /\ force_fields'[i].age = 1
                      /\ force_fields'[i].max_age = HoldDuration]_vars

\* C4 witness: a click field in its last live step
C4_Witness ==
    \E i \in 1 .. Len(force_fields) :
       /\ force_fields[i].max_age = ClickDuration
       /\ force_fields[i].age = ClickDuration - 1

\* C5: no handler and no simulation step ever raises.
C5_NeverRaises == err = "none"

\* the particles of a list that survive their next update
ParticleKept(p) == p.age + 1 <= p.max_age /\ p.energy > 0

\* q is p one update later
ParticleNextAge(p, q) ==
    /\ q.age = p.age + 1
    /\ q.max_age = p.max_age
    /\ q.kind = p.kind
    /\ q.energy = p.energy

\* C8: a particle leaves the live set in the step whose update finds
\* age > max-age or energy <= 0, not earlier: every live particle has
\* age <= max-age and energy > 0, and a Tick keeps exactly the particles with
\* age + 1 <= max-age, each one step older, in order, followed by at most
\* the one particle spawned in that Tick.
C8_ParticleLifetime ==
    /\ [](\A i \in 1 .. Len(particles) :
            /\ particles[i].age <= particles[i].max_age
            /\ particles[i].energy > 0)
    /\ [][TickStep =>
            LET kept == FilterSeq(ParticleKept, particles)
                n == Len(kept)
            IN  /\ Len(particles') \in {n, n + 1}
                /\ Pairwise(ParticleNextAge, kept, SubSeq(particles', 1, n))
                /\ \A i \in (n + 1) .. Len(particles') :
                      particles'[i].age = 1]_vars

\* C8 witness: a particle in its last live step, next to a younger one
C8_Witness ==
    /\ Len(particles) >= 2
    /\ particles[1].age = particles[1].max_age
    /\ particles[1].age >= 2

\* C9: an explosion leaves shards in the live set, and the drag applied to
\* a shard is 0.90 while every other particle gets its kind's coefficient.
C9_ShardDrag ==
    /\ [](\A i \in 1 .. Len(particles) :
            DragOf(particles[i]) =
               IF IsShard(particles[i]) THEN RDiv(90 * FP, 100)
               ELSE PARTICLE_TYPES[particles[i].kind].drag)
    /\ [][op' = "explode" =>
            (err' = "none" /\ ShardsIn(particles') > ShardsIn(particles))]_vars

\* C10: the particle pass sees the pruned list: every field handed to it has
\* been aged at least once and is below its max age, and a live field has
\* acted exactly as often as it was aged, so at most max age - 1 times.
C10_PruneBeforePass ==
    /\ \A i \in 1 .. Len(passed) :
          /\ passed[i].age >= 1
          /\ passed[i].age < passed[i].max_age
    /\ \A i \in 1 .. Len(force_fields) :
          /\ force_fields[i].acted = force_fields[i].age
          /\ force_fields[i].acted <= force_fields[i].max_age - 1

\* C10 witness: a drag-hold field that has acted max age - 1 times
C10_Witness ==
    \E i \in 1 .. Len(force_fields) :
       /\ force_fields[i].max_age = HoldDuration
       /\ force_fields[i].acted = HoldDuration - 1
       /\ Len(particles) > 0

---------------------------------------------------------------------------
(* Particle.update on its own: one particle among fixed fields.  The        *)
(* particle starts in a state the loop can bring it to (inside the window, *)
(* speed at most 15), the fields are up to MAX_FORCE_FIELDS clicks at one  *)
(* spot.                                                                   *)

\* x, y in pixels
UpdatePos ==
    {<<500, 350>>, <<1000, 350>>, <<0, 350>>, <<500, 700>>, <<500, 0>>,
     <<1000, 700>>, <<0, 0>>}

\* vx, vy
UpdateVel ==
    {<<1490, 100>>, <<-1490, 100>>, <<100, 1490>>, <<100, -1490>>,
     <<1060, 1060>>, <<-1060, -1060>>, <<1, 0>>, <<0, -1>>, <<0, 0>>,
     <<-50, 100>>}

UpdateParticles ==
    { [ Particle(xy[1], xy[2], k, FP,
                 [vx |-> v[1], vy |-> v[2], size |-> 300,
                  max_age |-> UpdateSteps, charge |-> c])
        EXCEPT !.age = 0 ] :
        xy \in UpdatePos, v \in UpdateVel, k \in {"NORMAL", "ENERGY"},
        c \in {-1, 1} }

\* the click fields, as the MOUSEBUTTONDOWN handler makes them
UpdateFieldPos == {<<503, 354>>, <<997, 352>>, <<2, 3>>}

UpdateFieldKinds ==
    { [strength |-> 2 * FP, radius |-> 120, field_type |-> "gravity"],
      [strength |-> 3 * FP, radius |-> 100, field_type |-> "repulsion"],
      [strength |-> 4 * FP, radius |-> 90, field_type |-> "magnetic"] }

UpdateFields ==
    { Repeat(ForceField(xy[1], xy[2], k.strength, k.radius, k.field_type,
                        ClickDuration), n) :
        xy \in UpdateFieldPos, k \in UpdateFieldKinds,
        n \in 0 .. MAX_FORCE_FIELDS }

InitUpdate ==
    /\ \E p \in UpdateParticles : particles = <<p>>
    /\ force_fields \in UpdateFields
    /\ turbulence_active \in BOOLEAN
    /\ global_force_strength = FP
    /\ particle_size_multiplier = FP
    /\ current_particle_type = "NORMAL"
    /\ mouse_pressed = [left |-> FALSE, right |-> FALSE, middle |-> FALSE]
    /\ mouse_pos = <<0, 0>>
    /\ key_timers = {}
    /\ ctrl_held = FALSE
    /\ running = TRUE
    /\ pc = "update"
    /\ nev = 0
    /\ err = "none"
    /\ op = "start"
    /\ passed = << >>

\* one particle pass: every particle is updated, the dead are dropped
UpdateStep ==
    /\ particles # << >>
    /\ particles' = PruneParticles(particles, force_fields, turbulence_active)
    /\ passed' = force_fields
    /\ op' = "update"
    /\ UNCHANGED <<force_fields, global_force_strength,
                   particle_size_multiplier, turbulence_active,
                   current_particle_type, mouse_pressed, mouse_pos,
                   key_timers, ctrl_held, running, pc, nev, err>>

NextUpdate == UpdateStep

SpecUpdate == InitUpdate /\ [][NextUpdate]_vars

\* the squared speed of a particle
SpeedSq(p) == p.vx * p.vx + p.vy * p.vy

NoForce == ~turbulence_active /\ force_fields = << >>

\* the particle stands on a wall of the axis and moves out of the window
Outward(pos, v, limit) == (pos = limit /\ v > 0) \/ (pos = 0 /\ v < 0)

\* C7: after every update the particle is inside the window; a particle on
\* a wall moving outward (no force acting) is kept on the wall with that
\* velocity component, after drag, multiplied by -0.6 (sign flipped,
\* magnitude not increased), and a component whose axis is not left is only
\* dragged.
C7_Bounds ==
    /\ [](\A i \in 1 .. Len(particles) :
            /\ particles[i].x >= 0 /\ particles[i].x <= WIDTH * FP
            /\ particles[i].y >= 0 /\ particles[i].y <= HEIGHT * FP)
    /\ [][(NoForce /\ Len(particles) = 1 /\ Len(particles') = 1) =>
            LET p == particles[1]
                q == particles'[1]
                wx == RDiv(p.vx * PARTICLE_TYPES[p.kind].drag, 100)
                wy == RDiv(p.vy * PARTICLE_TYPES[p.kind].drag, 100)
                inx == p.x + 2 * wx >= 0 /\ p.x + 2 * wx <= WIDTH * FP
                iny == p.y + 2 * wy >= 0 /\ p.y + 2 * wy <= HEIGHT * FP
            IN  /\ Outward(p.x, p.vx, WIDTH * FP) =>
                     (q.x = p.x /\ q.vx = RDiv(-6 * wx, 10)
                        /\ q.vx * p.vx < 0 /\ Abs(q.vx) <= Abs(p.vx))
                /\ Outward(p.y, p.vy, HEIGHT * FP) =>
                     (q.y = p.y /\ q.vy = RDiv(-6 * wy, 10)
                        /\ q.vy * p.vy < 0 /\ Abs(q.vy) <= Abs(p.vy))
                /\ inx => (q.vx = wx /\ q.x = p.x + 2 * wx)
                /\ iny => (q.vy = wy /\ q.y = p.y + 2 * wy)]_vars

\* C7 witness: a particle that started on the right wall moving outward
\* and, one update later, is still on the wall, moving inward
C7_Witness ==
    /\ NoForce
    /\ Len(particles) = 1
    /\ particles[1].age = 1
    /\ particles[1].x = WIDTH * FP
    /\ particles[1].vx < 0
    /\ particles[1].y # 0 /\ particles[1].y # HEIGHT * FP

===========================================================================
